---- MODULE Spec2Model ----
(***************************************************************************)
(* Model of ember-cli-content-security-policy (index.js): the source-list  *)
(* append with default-src fallback, the live-reload and report-endpoint   *)
(* additions, the express request handler and the contentFor hook.         *)
(*                                                                         *)
(* A JavaScript string is a sequence of atoms; the atom " " is the single  *)
(* space String.prototype.split(' ') and Array.prototype.join(' ') act on. *)
(* An array that the configuration holds lives in a heap and is referred   *)
(* to by reference, so that aliasing between the configured policy and a   *)
(* shallow clone of it is visible; an array local to a call is a "list".   *)
(***************************************************************************)
EXTENDS Integers, Sequences, FiniteSets, TLC

SP == " "

\* ------------------------------------------------------------ constants
CSP_SELF == <<"'self'">>
CSP_NONE == <<"'none'">>
REPORT_PATH == <<"/csp-report">>
CSP_HEADER == "Content-Security-Policy"
CSP_HEADER_REPORT_ONLY == "Content-Security-Policy-Report-Only"
X_CSP_HEADER == "X-Content-Security-Policy"
X_CSP_HEADER_REPORT_ONLY == "X-Content-Security-Policy-Report-Only"
CSP_REPORT_URI == "report-uri"
CSP_FRAME_ANCESTORS == "frame-ancestors"
CSP_SANDBOX == "sandbox"
META_UNSUPPORTED_DIRECTIVES == <<CSP_REPORT_URI, CSP_FRAME_ANCESTORS, CSP_SANDBOX>>
DELIVERY_HEADER == "header"
DELIVERY_META == "meta"
STATIC_TEST_NONCE == <<"abcdefg">>

\* ------------------------------------------------------------ JS values
\* kind: "absent" (no such key, reads undefined), "null", "zero" (the
\* number 0), "num" (a non-zero number), "str", "arr" (array in the heap),
\* "list" (array local to a call).
Absent == [kind |-> "absent"]
Null == [kind |-> "null"]
Zero == [kind |-> "zero"]
Num == [kind |-> "num"]
Str(s) == [kind |-> "str", s |-> s]
Arr(r) == [kind |-> "arr", ref |-> r]
List(xs) == [kind |-> "list", items |-> xs]
Bool(b) == [kind |-> IF b THEN "true" ELSE "false"]

IsArray(v) == v.kind \in {"arr", "list"}
Truthy(v) == \/ v.kind \in {"num", "arr", "list", "true"}
             \/ v.kind = "str" /\ v.s # <<>>
Elems(h, v) == IF v.kind = "arr" THEN h[v.ref] ELSE v.items

\* String.prototype.split(' ')
RECURSIVE SplitFrom(_, _, _)
SplitFrom(s, i, cur) ==
  IF i > Len(s) THEN <<cur>>
  ELSE IF s[i] = SP THEN <<cur>> \o SplitFrom(s, i + 1, <<>>)
  ELSE SplitFrom(s, i + 1, Append(cur, s[i]))
Split(s) == SplitFrom(s, 1, <<>>)

\* Array.prototype.join(' ')
RECURSIVE Join(_)
Join(xs) ==
  IF xs = <<>> THEN <<>>
  ELSE IF Len(xs) = 1 THEN xs[1]
  ELSE xs[1] \o <<SP>> \o Join(Tail(xs))

\* ------------------------------------------------------------ JS objects
\* keys: own keys in insertion order; vals: the value under each key.
Directives == {"default-src", "script-src", "font-src", "connect-src", "img-src",
               "style-src", "media-src", "frame-src", "report-uri", "frame-ancestors"}
\* the order in which a literal lists its directives
DirOrder == <<"default-src", "script-src", "font-src", "connect-src", "img-src",
              "style-src", "media-src", "frame-src", "report-uri", "frame-ancestors">>
NoVals == [d \in {} |-> Absent]
EmptyObject == [keys |-> <<>>, vals |-> NoVals]
Has(o, name) == name \in DOMAIN o.vals
Get(o, name) == IF name \in DOMAIN o.vals THEN o.vals[name] ELSE Absent
Put(o, name, v) ==
  IF Has(o, name)
  THEN [keys |-> o.keys, vals |-> [o.vals EXCEPT ![name] = v]]
  ELSE [keys |-> Append(o.keys, name), vals |-> (name :> v) @@ o.vals]
\* the arrays policy objects refer to, by reference
EmptyHeap == [r \in {} |-> <<>>]

\* ------------------------------------------------------------ appendSourceList
\* line 52-54: a non-empty string is cast to an array
CastString(v) ==
  IF v.kind = "str" /\ v.s # <<>> THEN List(Split(v.s)) ELSE v

\* line 56
IsUnknown(v) == v.kind # "null" /\ v.kind # "absent" /\ ~IsArray(v)

\* line 60-65
PickOldSourceList(h, o, oldValue) ==
  IF ~Truthy(oldValue) \/ Len(Elems(h, oldValue)) = 0
  THEN IF Truthy(Get(o, "default-src")) THEN Get(o, "default-src") ELSE List(<<>>)
  ELSE oldValue

\* line 68 with the array left aliased (no copy)
SliceList_Aliased(h, v) == v

\* line 68: slice() copies an array and returns a string as it is
SliceList(h, v) ==
  IF IsArray(v) THEN List(Elems(h, v)) ELSE v

\* line 69: push onto an array; an array in the heap is changed in place
Push(h, v, x) ==
  IF v.kind = "arr"
  THEN [heap |-> [h EXCEPT ![v.ref] = Append(h[v.ref], x)], list |-> v]
  ELSE [heap |-> h, list |-> List(Append(v.items, x))]

Throw(h, o, err) == [threw |-> err, heap |-> h, obj |-> o]

appendSourceList(h, o, name, sourceList) ==
  LET oldValue == CastString(Get(o, name)) IN
  IF IsUnknown(oldValue) THEN Throw(h, o, "Error")
  ELSE
    LET oldSourceList == PickOldSourceList(h, o, oldValue) IN
    \* only arrays and strings have a slice method
    IF ~IsArray(oldSourceList) /\ oldSourceList.kind # "str" THEN Throw(h, o, "TypeError")
    ELSE
      LET newSourceList == SliceList(h, oldSourceList) IN
      \* a string has no push method
      IF ~IsArray(newSourceList) THEN Throw(h, o, "TypeError")
      ELSE
        LET pushed == Push(h, newSourceList, sourceList) IN
        [threw |-> "none",
         heap |-> pushed.heap,
         obj |-> Put(o, name, Str(Join(Elems(pushed.heap, pushed.list))))]

\* ------------------------------------------------------------ steps that may throw
\* a run of statements over one policy object: once a statement has thrown
\* the rest is not executed
Started(h, o) == [threw |-> "none", heap |-> h, obj |-> o]
ThenAppend(st, name, sourceList) ==
  IF st.threw # "none" THEN st ELSE appendSourceList(st.heap, st.obj, name, sourceList)

\* ------------------------------------------------------------ allowLiveReload
\* a property read: undefined when the object has no such property
ReadProp(o, k) == IF k \in DOMAIN o THEN o[k] ELSE Absent

RECURSIVE FilterTruthy(_)
FilterTruthy(xs) ==
  IF xs = <<>> THEN <<>>
  ELSE IF Truthy(Head(xs)) THEN <<Head(xs)>> \o FilterTruthy(Tail(xs))
  ELSE FilterTruthy(Tail(xs))

\* line 77: the candidate hosts
LiveReloadHosts(liveReloadConfig) ==
  FilterTruthy(<<Str(<<"localhost">>), Str(<<"0.0.0.0">>), ReadProp(liveReloadConfig, "hostname")>>)

\* line 78-81, for the candidates in order
RECURSIVE AllowHosts(_, _, _, _)
AllowHosts(st, hosts, port, ssl) ==
  IF hosts = <<>> THEN st
  ELSE
    LET protocol == IF Truthy(ssl) THEN <<"wss://">> ELSE <<"ws://">>
        host == Head(hosts).s \o <<":">> \o port.s
        st1 == ThenAppend(st, "connect-src", protocol \o host)
        st2 == ThenAppend(st1, "script-src", host)
    IN AllowHosts(st2, Tail(hosts), port, ssl)

allowLiveReload(st, liveReloadConfig) ==
  AllowHosts(st, LiveReloadHosts(liveReloadConfig),
             ReadProp(liveReloadConfig, "port"), ReadProp(liveReloadConfig, "ssl"))

\* ------------------------------------------------------------ unsupportedDirectives
unsupportedDirectives(policyObject) ==
  SelectSeq(META_UNSUPPORTED_DIRECTIVES, LAMBDA name : Has(policyObject, name))

\* ------------------------------------------------------------ buildPolicyString (lib/utils)
\* the string form of a directive value: an array joined by single spaces, a
\* string as it is, nothing for null
ValueString(h, v) ==
  IF v.kind = "arr" THEN Join(h[v.ref])
  ELSE IF v.kind = "str" THEN v.s
  ELSE <<>>

RECURSIVE Clauses(_, _, _)
Clauses(h, o, keys) ==
  IF keys = <<>> THEN <<>>
  ELSE
    LET value == ValueString(h, Get(o, Head(keys)))
        rest == Clauses(h, o, Tail(keys))
    IN IF value = <<>> THEN rest
       ELSE <<(<<Head(keys), SP>> \o value)>> \o rest

RECURSIVE JoinClauses(_)
JoinClauses(cs) ==
  IF cs = <<>> THEN <<>>
  ELSE IF Len(cs) = 1 THEN cs[1]
  ELSE cs[1] \o <<";", SP>> \o JoinClauses(Tail(cs))

buildPolicyString(h, policyObject) == JoinClauses(Clauses(h, policyObject, policyObject.keys))

\* ------------------------------------------------------------ configuration
\* Object.assign(target, source) on policy objects: source's own keys, in
\* order, are written onto target
RECURSIVE AssignKeys(_, _, _)
AssignKeys(target, source, keys) ==
  IF keys = <<>> THEN target
  ELSE AssignKeys(Put(target, Head(keys), Get(source, Head(keys))), source, Tail(keys))
ObjectAssign(target, source) == AssignKeys(target, source, source.keys)

\* a policy property: undefined, or a policy object
NoPolicy == [defined |-> FALSE, obj |-> EmptyObject]
Policy(o) == [defined |-> TRUE, obj |-> o]

NullConfig ==
  [null |-> TRUE, delivery |-> <<>>, enabled |-> FALSE, policy |-> NoPolicy, reportOnly |-> FALSE]

\* line 108, 172: Object.assign({}, this._config.policy), a shallow clone
ClonePolicy(policy) ==
  IF policy.defined THEN ObjectAssign(EmptyObject, policy.obj) ELSE EmptyObject

HasDelivery(config, d) == \E i \in 1..Len(config.delivery) : config.delivery[i] = d

\* ------------------------------------------------------------ policy literals
\* a policy written as a literal: for each directive given, v (with kind
\* "arr" standing for an array literal) and the array's elements a
Given(v) == [v |-> v, a |-> <<>>]
ArrayOf(xs) == [v |-> Arr(""), a |-> xs]

\* the object the literal evaluates to, keys in DirOrder, and its arrays
MkObject(c) ==
  LET present(d) == d \in DOMAIN c /\ c[d].v.kind # "absent" IN
  [keys |-> SelectSeq(DirOrder, present),
   vals |-> [d \in {k \in DOMAIN c : present(k)} |->
              IF c[d].v.kind = "arr" THEN Arr(d) ELSE c[d].v]]
MkHeap(c) ==
  [d \in {k \in DOMAIN c : c[k].v.kind = "arr"} |-> c[d].a]

\* the arrays after Object.assign(target, source): source's arrays come along
HeapAssign(hTarget, hSource, source) ==
  LET arrays == {d \in DOMAIN hSource : Get(source, d).kind = "arr"} IN
  [d \in DOMAIN hTarget \cup arrays |-> IF d \in arrays THEN hSource[d] ELSE hTarget[d]]

\* ------------------------------------------------------------ calculateConfig
\* line 240-248
DefaultPolicy ==
  [d \in {"default-src", "script-src", "font-src", "connect-src", "img-src",
          "style-src", "media-src"} |->
     ArrayOf(<<IF d = "default-src" THEN CSP_NONE ELSE CSP_SELF>>)]

\* an option that may be left out of a configuration object
NotGiven(dflt) == [given |-> FALSE, value |-> dflt]
Opt(x) == [given |-> TRUE, value |-> x]
\* a policy property of a configuration object: undefined or a literal
UndefinedPolicy == [defined |-> FALSE, c |-> DefaultPolicy]
PolicyLiteral(c) == [defined |-> TRUE, c |-> c]

calculateConfig(environment, ownConfig, runConfig) ==
  LET \* line 237-255
      policy0 == MkObject(DefaultPolicy)
      heap0_ == MkHeap(DefaultPolicy)
      policy1 == IF environment = "test" THEN Put(policy0, "frame-src", Str(CSP_SELF)) ELSE policy0
      \* line 267-270
      legacy == runConfig.contentSecurityPolicy
      policy2 == IF legacy.defined THEN ObjectAssign(policy1, MkObject(legacy.c)) ELSE policy1
      heap2 == IF legacy.defined THEN HeapAssign(heap0_, MkHeap(legacy.c), MkObject(legacy.c)) ELSE heap0_
      \* line 271-273
      delivery2 == IF Truthy(runConfig.contentSecurityPolicyMeta)
                   THEN <<DELIVERY_META>> ELSE <<DELIVERY_HEADER>>
      \* line 274-276
      reportOnly2 == IF Truthy(runConfig.contentSecurityPolicyHeader)
                     THEN runConfig.contentSecurityPolicyHeader # Str(<<CSP_HEADER>>)
                     ELSE TRUE
      \* line 279
      own == ownConfig.policy
  IN [config |->
        [null |-> FALSE,
         delivery |-> IF ownConfig.delivery.given THEN ownConfig.delivery.value ELSE delivery2,
         enabled |-> IF ownConfig.enabled.given THEN ownConfig.enabled.value ELSE TRUE,
         policy |-> IF own.given
                    THEN (IF own.value.defined THEN Policy(MkObject(own.value.c)) ELSE NoPolicy)
                    ELSE Policy(policy2),
         reportOnly |-> IF ownConfig.reportOnly.given THEN ownConfig.reportOnly.value ELSE reportOnly2],
      heap |-> IF own.given
               THEN (IF own.value.defined THEN MkHeap(own.value.c) ELSE EmptyHeap)
               ELSE heap2]

\* ------------------------------------------------------------ the request handler
HeaderNames == {CSP_HEADER, CSP_HEADER_REPORT_ONLY, X_CSP_HEADER, X_CSP_HEADER_REPORT_ONLY}
\* a response: the value under each header it carries
NoHeaders == [n \in {} |-> <<>>]
removeHeader(res, name) == [n \in DOMAIN res \ {name} |-> res[n]]
setHeader(res, name, value) == (name :> value) @@ res
XName(header) == IF header = CSP_HEADER THEN X_CSP_HEADER ELSE X_CSP_HEADER_REPORT_ONLY

\* line 139, 144 without the removals
SetCspHeaders_NoClear(res, header, headerValue) ==
  setHeader(setHeader(res, header, headerValue), XName(header), headerValue)

\* line 136-144
SetCspHeaders(res, header, headerValue) ==
  LET r1 == removeHeader(res, CSP_HEADER)
      r2 == removeHeader(r1, CSP_HEADER_REPORT_ONLY)
      r3 == setHeader(r2, header, headerValue)
      r4 == removeHeader(r3, X_CSP_HEADER)
      r5 == removeHeader(r4, X_CSP_HEADER_REPORT_ONLY)
  IN setHeader(r5, XName(header), headerValue)

TestNonce == <<"'nonce-">> \o STATIC_TEST_NONCE \o <<"'">>

\* line 122-124
ReportOrigin(opts) ==
  LET ecHost == IF Truthy(opts.host) THEN opts.host.s ELSE <<"localhost">>
      ecProtocol == IF Truthy(opts.ssl) THEN <<"https://">> ELSE <<"http://">>
  IN ecProtocol \o ecHost \o <<":">> \o opts.port.s

\* line 120-127
AddReportEndpoint(st, header, opts) ==
  IF st.threw # "none" THEN st
  ELSE IF header = CSP_HEADER_REPORT_ONLY /\ ~Has(st.obj, "report-uri")
  THEN LET ecOrigin == ReportOrigin(opts)
           st1 == ThenAppend(st, "connect-src", ecOrigin)
       IN IF st1.threw # "none" THEN st1
          ELSE [st1 EXCEPT !.obj = Put(st1.obj, "report-uri", Str(ecOrigin \o REPORT_PATH))]
  ELSE st

Handled(threw, h, nextCalled, headers, policyObject, headerValue) ==
  [threw |-> threw, heap |-> h, nextCalled |-> nextCalled, headers |-> headers,
   policyObject |-> policyObject, headerValue |-> headerValue]

\* line 100-147: the middleware function, on a response carrying headers res
RequestHandler(config, liveReload, opts, h, res) ==
  IF ~config.enabled THEN Handled("none", h, TRUE, res, EmptyObject, <<>>)
  ELSE
    LET header == IF config.reportOnly THEN CSP_HEADER_REPORT_ONLY ELSE CSP_HEADER
        st0 == Started(h, ClonePolicy(config.policy))
        \* line 112-114: the clone is an object, so always truthy
        st1 == ThenAppend(st0, "script-src", TestNonce)
        st2 == IF st1.threw = "none" /\ ~liveReload.null
               THEN allowLiveReload(st1, liveReload.props) ELSE st1
        st3 == AddReportEndpoint(st2, header, opts)
        headerValue == buildPolicyString(st3.heap, st3.obj)
    IN IF st3.threw # "none" THEN Handled(st3.threw, st3.heap, FALSE, res, st3.obj, <<>>)
       ELSE IF headerValue = <<>> THEN Handled("none", st3.heap, TRUE, res, st3.obj, <<>>)
       ELSE Handled("none", st3.heap, TRUE, SetCspHeaders(res, header, headerValue),
                    st3.obj, headerValue)

\* ------------------------------------------------------------ contentFor
SCRIPT_OPEN == "<script>"
TESTS_FILE_LOADED == "Ember.assert('The tests file was not loaded.', EmberENV.TESTS_FILE_LOADED);"
SCRIPT_CLOSE == "</script>"

\* line 202: the classes of the regular expression, over the atoms of an entry
NL == "\n"
\* \s
IsSpace(a) == a = SP \/ a = NL
\* an atom that begins with 'Ember.assert('
StartsAssert(a) == a = TESTS_FILE_LOADED
\* an atom that ends with 'EmberENV.TESTS_FILE_LOADED);'
EndsFlag(a) == a = TESTS_FILE_LOADED

\* line 202: the regular expression's test, unanchored:
\* <script> \s* Ember.assert( .* EmberENV.TESTS_FILE_LOADED); \s* </script>
\* where . is anything but a line terminator
MatchesAssertScript(entry) ==
  \E i \in 1..Len(entry) : \E j \in i..Len(entry) : \E k \in j..Len(entry) :
    \E m \in k..Len(entry) :
      /\ i < j
      /\ k < m
      /\ entry[i] = SCRIPT_OPEN
      /\ \A x \in (i + 1)..(j - 1) : IsSpace(entry[x])
      /\ StartsAssert(entry[j])
      /\ \A x \in j..k : entry[x] # NL
      /\ EndsFlag(entry[k])
      /\ \A x \in (k + 1)..(m - 1) : IsSpace(entry[x])
      /\ entry[m] = SCRIPT_CLOSE

\* line 203: replace() of the first '<script>' of the entry
AddNonce(entry) ==
  IF \E i \in 1..Len(entry) : entry[i] = SCRIPT_OPEN
  THEN LET i == CHOOSE k \in 1..Len(entry) :
                  entry[k] = SCRIPT_OPEN /\ \A j \in 1..(k - 1) : entry[j] # SCRIPT_OPEN
       IN SubSeq(entry, 1, i - 1) \o <<"<script nonce=\"">> \o STATIC_TEST_NONCE \o <<"\">">>
            \o SubSeq(entry, i + 1, Len(entry))
  ELSE entry

\* line 199-206
AddNonceToAssertScript(existingContent) ==
  [i \in 1..Len(existingContent) |->
     IF MatchesAssertScript(existingContent[i]) THEN AddNonce(existingContent[i])
     ELSE existingContent[i]]

NoMeta == [defined |-> FALSE]
Meta(policyString) == [defined |-> TRUE, httpEquiv |-> CSP_HEADER, content |-> policyString]

Content(threw, h, ret, existingContent, warnings, policyObject) ==
  [threw |-> threw, heap |-> h, ret |-> ret, existingContent |-> existingContent,
   warnings |-> warnings, policyObject |-> policyObject]

\* line 159-207
contentFor(config, liveReload, h, type, environment, existingContent) ==
  IF ~config.enabled THEN Content("none", h, NoMeta, existingContent, <<>>, EmptyObject)
  ELSE IF type = "head" /\ HasDelivery(config, DELIVERY_META)
  THEN
    LET st0 == Started(h, ClonePolicy(config.policy))
        st1 == IF environment = "test" THEN ThenAppend(st0, "script-src", TestNonce) ELSE st0
        st2 == IF st1.threw = "none" /\ ~liveReload.null
               THEN allowLiveReload(st1, liveReload.props) ELSE st1
        policyString == buildPolicyString(st2.heap, st2.obj)
    IN IF st2.threw # "none"
       THEN Content(st2.threw, st2.heap, NoMeta, existingContent, <<>>, st2.obj)
       ELSE Content("none", st2.heap,
                    IF policyString = <<>> THEN NoMeta ELSE Meta(policyString),
                    existingContent, unsupportedDirectives(st2.obj), st2.obj)
  ELSE IF type = "test-body-footer"
  THEN Content("none", h, NoMeta, AddNonceToAssertScript(existingContent), <<>>, EmptyObject)
  ELSE Content("none", h, NoMeta, existingContent, <<>>, EmptyObject)

\* ------------------------------------------------------------ state
VARIABLES
  P,          \* the policy object handed to appendSourceList
  Pheap,      \* the arrays P's directives refer to
  P0,         \* P as first handed over
  Pheap0,     \* the arrays as first handed over
  Pprev,      \* P right before the latest call
  calls,      \* the calls made so far, <<name, sourceList>> records
  outcome     \* what the latest call threw: "none", "Error", "TypeError"

VARIABLES
  this_config,      \* this._config: null until included()
  this_liveReload,  \* this._liveReload: null unless serverMiddleware saw options.liveReload
  options,          \* the options serverMiddleware was called with (closed over by the handler)
  heap,             \* the arrays the configured policy refers to
  config0,          \* this._config right after included()
  heap0,            \* the arrays right after included()
  last              \* the latest hook or request: its inputs and what it did

appendVars == <<P, Pheap, P0, Pheap0, Pprev, calls, outcome>>
addonVars == <<this_config, this_liveReload, options, heap, config0, heap0, last>>
vars == <<appendVars, addonVars>>

\* ------------------------------------------------------------ bounds and inputs
MaxAppends == 2

A_COM == <<"a.com">>
B_COM == <<"b.com">>
NONCE_X == <<"'nonce-x'">>

\* what a directive of a hand-written policy may hold: v with kind "arr"
\* stands for an array whose elements are a
ValueChoices ==
  {[v |-> Absent, a |-> <<>>], [v |-> Null, a |-> <<>>],
   [v |-> Zero, a |-> <<>>], [v |-> Num, a |-> <<>>],
   [v |-> Str(<<>>), a |-> <<>>], [v |-> Str(CSP_SELF), a |-> <<>>],
   [v |-> Str(CSP_SELF \o <<SP>> \o A_COM), a |-> <<>>],
   [v |-> Arr(""), a |-> <<>>], [v |-> Arr(""), a |-> <<CSP_SELF>>],
   [v |-> Arr(""), a |-> <<CSP_SELF, A_COM>>]}

AppendDirs == {"default-src", "script-src", "connect-src"}
AppendTargets == {"script-src", "connect-src"}
AppendTokens == {B_COM, NONCE_X}

\* the policies a project's configuration may give
POLICY_EXAMPLE ==
  ("script-src" :> ArrayOf(<<CSP_SELF>>) @@ "connect-src" :> ArrayOf(<<CSP_SELF>>))
POLICY_DEFAULT_ONLY == ("default-src" :> ArrayOf(<<CSP_SELF, A_COM>>))
POLICY_STRING_DEFAULT ==
  ("default-src" :> Given(Str(CSP_NONE)) @@ "script-src" :> ArrayOf(<<CSP_SELF>>))
POLICY_REPORT_URI ==
  ("default-src" :> ArrayOf(<<CSP_NONE>>) @@ "script-src" :> ArrayOf(<<CSP_SELF>>)
   @@ "connect-src" :> ArrayOf(<<CSP_SELF>>)
   @@ "report-uri" :> Given(Str(<<"https://report.example/csp">>))
   @@ "frame-ancestors" :> Given(Str(CSP_NONE)))
POLICY_EMPTY_STRING ==
  ("default-src" :> ArrayOf(<<CSP_NONE>>) @@ "script-src" :> ArrayOf(<<CSP_SELF>>)
   @@ "connect-src" :> Given(Str(<<>>)))
POLICY_EMPTY == [d \in {} |-> Given(Absent)]
POLICY_LEGACY == ("connect-src" :> Given(Str(CSP_SELF \o <<SP>> \o A_COM)))

\* a configuration written in ember-cli-build.js
OwnConfig(delivery, enabled, policy, reportOnly) ==
  [delivery |-> delivery, enabled |-> enabled, policy |-> policy, reportOnly |-> reportOnly]
NO_OWN_CONFIG ==
  OwnConfig(NotGiven(<<>>), NotGiven(TRUE), NotGiven(UndefinedPolicy), NotGiven(TRUE))

\* legacy settings in config/environment.js
RunConfig(contentSecurityPolicy, contentSecurityPolicyMeta, contentSecurityPolicyHeader) ==
  [contentSecurityPolicy |-> contentSecurityPolicy,
   contentSecurityPolicyMeta |-> contentSecurityPolicyMeta,
   contentSecurityPolicyHeader |-> contentSecurityPolicyHeader]
NO_RUN_CONFIG == RunConfig(UndefinedPolicy, Absent, Absent)

OwnPolicies ==
  {NotGiven(UndefinedPolicy), Opt(UndefinedPolicy), Opt(PolicyLiteral(POLICY_EMPTY)),
   Opt(PolicyLiteral(POLICY_EXAMPLE)), Opt(PolicyLiteral(POLICY_DEFAULT_ONLY)),
   Opt(PolicyLiteral(POLICY_STRING_DEFAULT)), Opt(PolicyLiteral(POLICY_REPORT_URI)),
   Opt(PolicyLiteral(POLICY_EMPTY_STRING))}
OwnDeliveries ==
  {NotGiven(<<>>), Opt(<<DELIVERY_META>>), Opt(<<DELIVERY_HEADER, DELIVERY_META>>)}
RunConfigs ==
  {NO_RUN_CONFIG,
   RunConfig(PolicyLiteral(POLICY_LEGACY), Bool(TRUE), Str(<<CSP_HEADER>>)),
   RunConfig(UndefinedPolicy, Absent, Str(<<CSP_HEADER_REPORT_ONLY>>))}

\* the projects included() is run for: environment, ownConfig, runConfig
Projects ==
  {<<"development", OwnConfig(delivery, NotGiven(TRUE), policy, reportOnly), NO_RUN_CONFIG>> :
     delivery \in OwnDeliveries, policy \in OwnPolicies,
     reportOnly \in {NotGiven(TRUE), Opt(FALSE)}}
  \cup {<<environment, NO_OWN_CONFIG, runConfig>> :
          environment \in {"development", "test"}, runConfig \in RunConfigs}
  \cup {<<"test", OwnConfig(Opt(<<DELIVERY_HEADER, DELIVERY_META>>), Opt(FALSE), policy,
                            NotGiven(TRUE)), NO_RUN_CONFIG>> :
          policy \in {NotGiven(UndefinedPolicy), Opt(PolicyLiteral(POLICY_REPORT_URI))}}

Environments == {"development", "test"}

NullOptions ==
  [null |-> TRUE, liveReload |-> Bool(FALSE), liveReloadHost |-> Absent,
   liveReloadPort |-> Absent, ssl |-> Bool(FALSE), host |-> Absent, port |-> Absent]
ServerOptions(liveReload, liveReloadHost, ssl, host) ==
  [null |-> FALSE, liveReload |-> Bool(liveReload), liveReloadHost |-> liveReloadHost,
   liveReloadPort |-> Str(<<"4200">>), ssl |-> Bool(ssl), host |-> host,
   port |-> Str(<<"4200">>)]
MiddlewareOptions ==
  {ServerOptions(FALSE, Absent, FALSE, Absent),
   ServerOptions(FALSE, Str(<<"example.com">>), TRUE, Str(<<"example.org">>)),
   ServerOptions(TRUE, Str(<<"example.com">>), FALSE, Absent),
   ServerOptions(TRUE, Str(<<>>), TRUE, Str(<<"example.org">>)),
   ServerOptions(TRUE, Absent, FALSE, Str(<<"example.org">>))}

NullLiveReload == [null |-> TRUE, props |-> [k \in {} |-> Absent]]

\* the response as upstream middleware left it: stale values under the names in names
STALE == <<"default-src", SP, "*">>
Upstream(names) == [n \in names |-> STALE]

ContentTypes == {"head", "body", "test-body-footer"}
ASSERT_ENTRY == <<SCRIPT_OPEN, TESTS_FILE_LOADED, SCRIPT_CLOSE>>
OTHER_ENTRY == <<"<div id=\"qunit\">", "</div>">>
\* the same script with white space inside the tag
SPACED_ENTRY == <<SCRIPT_OPEN, NL, SP, TESTS_FILE_LOADED, SP, NL, SCRIPT_CLOSE>>
\* two assertions on one line, and on two lines
TWICE_ENTRY == <<SCRIPT_OPEN, TESTS_FILE_LOADED, OTHER_ENTRY[1], TESTS_FILE_LOADED, SCRIPT_CLOSE>>
SPLIT_ENTRY == <<SCRIPT_OPEN, TESTS_FILE_LOADED, NL, TESTS_FILE_LOADED, SCRIPT_CLOSE>>
ExistingContents ==
  {<<>>, <<OTHER_ENTRY, ASSERT_ENTRY>>, <<SPACED_ENTRY>>, <<TWICE_ENTRY, SPLIT_ENTRY>>}

NoOp ==
  [op |-> "none", threw |-> "none", upstream |-> NoHeaders, headers |-> NoHeaders,
   nextCalled |-> FALSE, policyObject |-> EmptyObject, headerValue |-> <<>>,
   type |-> "", environment |-> "", ret |-> NoMeta,
   existingBefore |-> <<>>, existingAfter |-> <<>>, warnings |-> <<>>]

\* ------------------------------------------------------------ the addon's hooks
AppendIdle ==
  /\ P = EmptyObject /\ Pheap = EmptyHeap /\ P0 = EmptyObject /\ Pheap0 = EmptyHeap
  /\ Pprev = EmptyObject /\ calls = <<>> /\ outcome = "none"

\* line 229-233
Init ==
  /\ this_config = NullConfig
  /\ this_liveReload = NullLiveReload
  /\ options = NullOptions
  /\ heap = EmptyHeap
  /\ config0 = NullConfig
  /\ heap0 = EmptyHeap
  /\ last = NoOp
  /\ AppendIdle

\* line 220-227
included(environment, ownConfig, runConfig) ==
  /\ this_config.null
  /\ \E r \in {calculateConfig(environment, ownConfig, runConfig)} :
     /\ this_config' = r.config
     /\ heap' = r.heap
     /\ config0' = r.config
     /\ heap0' = r.heap
  /\ last' = [NoOp EXCEPT !.op = "included"]
  /\ UNCHANGED <<this_liveReload, options, appendVars>>

\* line 88-98, 100: the hook itself, called once, after included()
serverMiddleware(opts) ==
  /\ ~this_config.null
  /\ options.null
  /\ this_liveReload' =
       IF Truthy(opts.liveReload)
       THEN [null |-> FALSE,
             props |-> ("host" :> opts.liveReloadHost @@ "port" :> opts.liveReloadPort
                        @@ "ssl" :> opts.ssl)]
       ELSE this_liveReload
  /\ options' = opts
  /\ last' = [NoOp EXCEPT !.op = "serverMiddleware"]
  /\ UNCHANGED <<this_config, heap, config0, heap0, appendVars>>

\* line 100-147: one request through the registered middleware
Request(names) ==
  /\ ~options.null
  /\ \E r \in {RequestHandler(this_config, this_liveReload, options, heap, Upstream(names))} :
     /\ heap' = r.heap
     /\ last' = [NoOp EXCEPT !.op = "request", !.threw = r.threw,
                             !.upstream = Upstream(names), !.headers = r.headers,
                             !.nextCalled = r.nextCalled, !.policyObject = r.policyObject,
                             !.headerValue = r.headerValue]
  /\ UNCHANGED <<this_config, this_liveReload, options, config0, heap0, appendVars>>

\* line 159-207: one call of the contentFor hook
ContentFor(type, environment, existingContent) ==
  /\ ~this_config.null
  /\ \E r \in {contentFor(this_config, this_liveReload, heap, type, environment, existingContent)} :
     /\ heap' = r.heap
     /\ last' = [NoOp EXCEPT !.op = "contentFor", !.threw = r.threw,
                             !.policyObject = r.policyObject,
                             !.type = type, !.environment = environment, !.ret = r.ret,
                             !.existingBefore = existingContent,
                             !.existingAfter = r.existingContent, !.warnings = r.warnings]
  /\ UNCHANGED <<this_config, this_liveReload, options, config0, heap0, appendVars>>

Next ==
  \/ \E project \in Projects : included(project[1], project[2], project[3])
  \/ \E opts \in MiddlewareOptions : serverMiddleware(opts)
  \/ \E names \in SUBSET HeaderNames : Request(names)
  \/ \E type \in ContentTypes, environment \in Environments,
        existingContent \in ExistingContents :
       ContentFor(type, environment, existingContent)

Spec == Init /\ [][Next]_vars

\* ------------------------------------------------------------ appendSourceList on its own
AddonIdle ==
  /\ this_config = NullConfig /\ this_liveReload = NullLiveReload /\ options = NullOptions
  /\ heap = EmptyHeap /\ config0 = NullConfig /\ heap0 = EmptyHeap /\ last = NoOp

InitAppend ==
  /\ AddonIdle
  /\ \E c \in [AppendDirs -> ValueChoices] :
       /\ P = MkObject(c)
       /\ Pheap = MkHeap(c)
       /\ P0 = MkObject(c)
       /\ Pheap0 = MkHeap(c)
       /\ Pprev = MkObject(c)
       /\ calls = <<>>
       /\ outcome = "none"

\* one call appendSourceList(P, name, sourceList); a call that throws ends the run
CallAppend(name, sourceList) ==
  /\ Len(calls) < MaxAppends
  /\ outcome = "none"
  /\ \E r \in {appendSourceList(Pheap, P, name, sourceList)} :
     /\ P' = r.obj
     /\ Pheap' = r.heap
     /\ outcome' = r.threw
  /\ Pprev' = P
  /\ calls' = Append(calls, [name |-> name, sourceList |-> sourceList])
  /\ UNCHANGED <<P0, Pheap0, addonVars>>

NextAppend == \E name \in AppendTargets, sourceList \in AppendTokens : CallAppend(name, sourceList)

SpecAppend == InitAppend /\ [][NextAppend]_vars

\* ------------------------------------------------------------ reading a policy
\* the sources a directive value stands for: none when absent or null, the
\* space-separated tokens of a string, the elements of an array
Sources(h, v) ==
  IF v.kind = "str" THEN (IF v.s = <<>> THEN <<>> ELSE Split(v.s))
  ELSE IF v.kind = "arr" THEN h[v.ref]
  ELSE <<>>
WellFormed(v) == v.kind \in {"absent", "null", "str", "arr"}

LastCall == calls[Len(calls)]
SameDirective(d) == \A i \in 1..Len(calls) : calls[i].name = d
TokensOf(cs) == [i \in 1..Len(cs) |-> cs[i].sourceList]

\* ------------------------------------------------------------ C1
\* C1 as stated: appendSourceList never mutates the model it is handed: every
\* directive of P, the appended one included, reads as before the call.
C1_InputNeverMutated ==
  calls # <<>> => P = Pprev /\ Pheap = Pheap0

\* C1 amended: appendSourceList writes the appended directive into the object it
\* is handed (as a space-joined string) and changes nothing else: every other
\* directive keeps its value, no source array is changed, and a call that
\* throws leaves the object as it was.
C1_OnlyDirectiveReplaced ==
  /\ Pheap = Pheap0
  /\ calls # <<>> =>
       /\ \A d \in Directives \ {LastCall.name} : Get(P, d) = Get(Pprev, d)
       /\ outcome = "none" =>
            /\ Get(P, LastCall.name).kind = "str"
            /\ Get(P, LastCall.name) # Get(Pprev, LastCall.name)
       /\ outcome # "none" => P = Pprev

C1_Witness ==
  /\ calls # <<>>
  /\ outcome = "none"
  /\ Get(Pprev, LastCall.name).kind = "arr"
  /\ Pheap0[LastCall.name] = <<CSP_SELF, A_COM>>
  /\ Get(P, LastCall.name) = Str(CSP_SELF \o <<SP>> \o A_COM \o <<SP>> \o LastCall.sourceList)

\* ------------------------------------------------------------ C2
\* C2: when the appended directive is absent or has zero sources, the call does
\* not fail and the directive gets default-src's sources, in order, followed by
\* the token, whether default-src is a string, an array or absent.
C2_FallbackPreserved ==
  (/\ Len(calls) = 1
   /\ Sources(Pheap0, Get(P0, LastCall.name)) = <<>>
   /\ Get(P0, LastCall.name).kind \in {"absent", "arr"}
   /\ Get(P0, "default-src").kind \in {"absent", "str", "arr"})
  => /\ outcome = "none"
     /\ Sources(Pheap, Get(P, LastCall.name))
          = Sources(Pheap0, Get(P0, "default-src")) \o <<LastCall.sourceList>>

\* ------------------------------------------------------------ C9
\* C9: after appends of T1..Tn to one directive D of a well-formed policy, D
\* holds base followed by T1..Tn in call order, base being D's original sources
\* if it had any and default-src's sources otherwise.
C9_ComposeLeftToRight ==
  \A d \in AppendTargets :
    (/\ calls # <<>>
     /\ SameDirective(d)
     /\ WellFormed(Get(P0, d))
     /\ WellFormed(Get(P0, "default-src")))
    => LET own == Sources(Pheap0, Get(P0, d))
           base == IF own # <<>> THEN own ELSE Sources(Pheap0, Get(P0, "default-src"))
       IN Sources(Pheap, Get(P, d)) = base \o TokensOf(calls)

\* ------------------------------------------------------------ C10
\* C10: a call fails exactly when the directive's value is neither absent, a
\* string nor an array (every string, the empty one included, is accepted), and
\* a failing call leaves the policy unchanged.
C10_FailsExactlyOnMalformed ==
  calls # <<>> =>
    /\ (outcome # "none") <=> ~WellFormed(Get(Pprev, LastCall.name))
    /\ outcome # "none" => P = Pprev /\ Pheap = Pheap0

\* ------------------------------------------------------------ reading the latest operation
BasePolicy == ClonePolicy(this_config.policy)
Tokens(h, o, name) == Sources(h, Get(o, name))
Contains(xs, x) == \E i \in 1..Len(xs) : xs[i] = x
\* sub occurs in xs as a run of neighbours
IsInfix(sub, xs) ==
  \E k \in 0..(Len(xs) - Len(sub)) : \A i \in 1..Len(sub) : xs[k + i] = sub[i]
HandledRequest == last.op = "request" /\ last.threw = "none"
BuiltHeader == HandledRequest /\ this_config.enabled
BuiltMeta ==
  /\ last.op = "contentFor" /\ last.threw = "none" /\ this_config.enabled
  /\ last.type = "head" /\ HasDelivery(this_config, DELIVERY_META)

\* ------------------------------------------------------------ C3
\* C3: whatever requests and contentFor calls have run, this._config.policy and
\* every array it holds are as included() left them.
C3_BasePolicyUnchanged ==
  ~this_config.null => this_config = config0 /\ heap = heap0

C3_Witness ==
  /\ HandledRequest
  /\ ~this_liveReload.null
  /\ Get(this_config.policy.obj, "script-src").kind = "arr"
  /\ Get(this_config.policy.obj, "connect-src").kind = "arr"
  /\ ~Has(this_config.policy.obj, "report-uri")
  /\ Has(last.policyObject, "report-uri")
  /\ Contains(Tokens(heap, last.policyObject, "script-src"), TestNonce)
  /\ Len(Tokens(heap, last.policyObject, "connect-src")) > Len(heap["connect-src"])
  /\ this_config.policy.defined

\* ------------------------------------------------------------ C4
\* C4: with live reload on for hostname H, port P and TLS flag S, a policy built
\* afterwards has <scheme>host:P appended to connect-src and host:P to
\* script-src for the hosts localhost, 0.0.0.0 and H in that order, H being
\* left out only when it is empty or unset.
C4_LiveReloadHosts ==
  ((BuiltHeader \/ BuiltMeta) /\ ~this_liveReload.null)
  => LET H == options.liveReloadHost
         hosts == <<(<<"localhost">>), (<<"0.0.0.0">>)>>
                    \o (IF H.kind = "str" /\ H.s # <<>> THEN <<H.s>> ELSE <<>>)
         scheme == IF options.ssl = Bool(TRUE) THEN <<"wss://">> ELSE <<"ws://">>
         bare == [i \in 1..Len(hosts) |-> hosts[i] \o <<":">> \o options.liveReloadPort.s]
         origins == [i \in 1..Len(hosts) |-> scheme \o bare[i]]
     IN /\ IsInfix(origins, Tokens(heap, last.policyObject, "connect-src"))
        /\ IsInfix(bare, Tokens(heap, last.policyObject, "script-src"))

\* ------------------------------------------------------------ C5
\* C5: the request handler appends the report origin <protocol>://<host>:<port>
\* to connect-src and sets report-uri to <origin>/csp-report if and only if the
\* policy is report-only and the base policy has no report-uri; otherwise
\* report-uri and connect-src are left without it. contentFor adds no report-uri.
C5_ReportEndpoint ==
  LET origin == (IF options.ssl = Bool(TRUE) THEN <<"https://">> ELSE <<"http://">>)
                  \o (IF options.host.kind = "str" THEN options.host.s ELSE <<"localhost">>)
                  \o <<":">> \o options.port.s
      connect == Tokens(heap, last.policyObject, "connect-src")
  IN /\ (last.op = "request" /\ this_config.enabled) =>
          IF this_config.reportOnly /\ ~Has(BasePolicy, "report-uri")
          THEN /\ last.threw = "none"
               /\ Get(last.policyObject, "report-uri") = Str(origin \o <<"/csp-report">>)
               /\ connect # <<>> /\ connect[Len(connect)] = origin
          ELSE last.threw = "none" =>
                 /\ Get(last.policyObject, "report-uri") = Get(BasePolicy, "report-uri")
                 /\ ~Contains(connect, origin)
     /\ BuiltMeta =>
          Get(last.policyObject, "report-uri") = Get(BasePolicy, "report-uri")

\* ------------------------------------------------------------ C6
\* C6: a request handled with the addon enabled and a non-empty serialized
\* policy ends, whatever CSP headers the response carried before, with the
\* header of the configured mode and its X- duplicate set to the serialized
\* policy and the other mode's two headers absent.
C6_HeadersReplaced ==
  (/\ HandledRequest
   /\ this_config.enabled
   /\ buildPolicyString(heap, last.policyObject) # <<>>)
  => LET header == IF this_config.reportOnly THEN CSP_HEADER_REPORT_ONLY ELSE CSP_HEADER
         other == IF this_config.reportOnly THEN CSP_HEADER ELSE CSP_HEADER_REPORT_ONLY
         value == buildPolicyString(heap, last.policyObject)
     IN /\ DOMAIN last.headers = {header, XName(header)}
        /\ last.headers[header] = value
        /\ last.headers[XName(header)] = value
        /\ other \notin DOMAIN last.headers
        /\ XName(other) \notin DOMAIN last.headers

C6_Witness ==
  /\ HandledRequest
  /\ this_config.enabled
  /\ ~this_config.reportOnly
  /\ DOMAIN last.upstream = HeaderNames
  /\ CSP_HEADER \in DOMAIN last.headers
  /\ last.headers[CSP_HEADER] # STALE
  /\ CSP_HEADER_REPORT_ONLY \notin DOMAIN last.headers

\* ------------------------------------------------------------ C7
\* C7: with the addon disabled, or with no policy configured (policy absent or
\* without directives), the handler touches no response header and passes the
\* request on, and contentFor returns no meta tag and leaves the existing
\* content as it is.
C7_ShortCircuit ==
  (/\ ~this_config.null
   /\ \/ ~this_config.enabled
      \/ ~this_config.policy.defined
      \/ this_config.policy.obj.keys = <<>>)
  => /\ last.op = "request" => last.headers = last.upstream /\ last.nextCalled
     /\ last.op = "contentFor" =>
          ~last.ret.defined /\ last.existingAfter = last.existingBefore

\* ------------------------------------------------------------ C8
\* C8: contentFor returns a meta tag only for type head, only when delivery
\* contains meta, and always as http-equiv Content-Security-Policy; the request
\* handler sets a CSP header only when delivery contains header.
C8_ConfiguredChannelsOnly ==
  /\ (last.op = "contentFor" /\ last.ret.defined) =>
       /\ last.type = "head"
       /\ HasDelivery(this_config, DELIVERY_META)
       /\ last.ret.httpEquiv = CSP_HEADER
  /\ (last.op = "request" /\ last.headers # last.upstream) =>
       HasDelivery(this_config, DELIVERY_HEADER)

====
